---- MODULE Spec2Model ----
(***************************************************************************)
(* Package record: the block-framed record log codec (Writer and Reader). *)
(* The Writer is modelled as a state machine whose operations are the      *)
(* exported methods; the Reader's methods are operators over a Reader      *)
(* record, applied to the byte stream the Writer delivered to its sink,    *)
(* and a second state machine calls them on logs a Writer has closed.      *)
(* Buffers keep the source's 0-based indices: buf is a function on         *)
(* 0..blockSize-1 and buf[a:b] is Slice(buf, a, b).                        *)
(***************************************************************************)
EXTENDS Integers, Sequences, FiniteSets, TLC

\* ------------------------------------------------------------------ bounds
\* The block is scaled down: blockSize = 2^LogBlockSize (the source: 2^15).
LogBlockSize == 4
\* Write calls in one run.
MaxWrites == 3
\* Capacity of the caller's buffer p handed to singleReader.Read.
ReadLen == 3
\* Calls made on one Reader in one run.
MaxReaderOps == 5

\* --------------------------------------------------------- wire constants
fullChunkType == 1
firstChunkType == 2
middleChunkType == 3
lastChunkType == 4
headerSize == 7
blockSize == 2 ^ LogBlockSize
blockSizeMask == blockSize - 1

\* ----------------------------------------------------------------- errors
Nil == "nil"
ErrSinkWrite == "sink: write failed"
ErrSinkFlush == "sink: flush failed"
ErrSinkSync == "sink: sync failed"
ErrClosed == "pebble/record: closed Writer"
ErrNoLastRecord == "pebble/record: no last record exists"
ErrNotAnIOSeeker == "pebble/record: reader does not implement io.Seeker"
ErrZeroed == "pebble/record: block appears to be zeroed"
ErrInvalidChunk == "pebble/record: invalid chunk"
ErrOverflow == "pebble/record: invalid chunk (length overflows block)"
ErrChecksum == "pebble/record: invalid chunk (checksum mismatch)"
ErrStale == "pebble/record: stale reader"
ErrSeek == "source: seek failed"
EOF == "EOF"
ErrUnexpectedEOF == "unexpected EOF"

\* ------------------------------------------------------------------ bytes
\* buf[a:b] of a 0-based buffer, as a sequence.
Slice(buf, a, b) == [k \in 1..(b - a) |-> buf[a + k - 1]]

\* binary.LittleEndian.PutUint32 / PutUint16 / Uint32 / Uint16.  A uint32 is
\* kept as its two 16-bit halves <<high, low>>, so that no value leaves the
\* range of the checker's integers; Zero32 is the uint32 0.
PutUint32(v) == <<v[2] % 256, v[2] \div 256, v[1] % 256, v[1] \div 256>>
PutUint16(v) == <<v % 256, (v \div 256) % 256>>
Uint32(b) == <<b[3] + 256 * b[4], b[1] + 256 * b[2]>>
Uint16(b) == b[1] + 256 * b[2]
Zero32 == <<0, 0>>

\* crc.New(span).Value(): the checksum package is not part of the sources at
\* hand; it is a pure function of the span.  The stand-in is an Adler-style
\* pair of running sums, which (like CRC-32C) changes whenever one byte of
\* the span changes or the span is cut or extended by one byte.
RECURSIVE crcSum(_, _, _, _)
crcSum(span, k, a, b) ==
    IF k > Len(span) THEN <<b, a>>
    ELSE LET a2 == (a + span[k]) % 65521
         IN crcSum(span, k + 1, a2, (b + a2) % 65521)

crcValue(span) == crcSum(span, 1, 1, 0)

\* The buffer with seq written at buf[at:at+len(seq)].
Put(buf, at, seq) ==
    [k \in DOMAIN buf |-> IF k >= at /\ k < at + Len(seq) THEN seq[k - at + 1] ELSE buf[k]]

\* ------------------------------------------------------------------ Writer
\* Sink calls that succeed before the sink fails; NoFail: the sink never fails.
NoFail == 0 - 1

\* The sink kinds NewWriter can be handed: a seekable sink without Flush or
\* Sync, positioned at an offset inside a block, and a seekable file with
\* Flush and Sync, positioned at a block boundary.
SinkKinds ==
    { [f |-> FALSE, s |-> FALSE, pos |-> 3],
      [f |-> TRUE, s |-> TRUE, pos |-> blockSize] }

\* NewWriter: the Writer struct right after construction, with the sink's
\* observable side: sinkBytes, the bytes delivered; calls, the sink calls made
\* by the last operation; sinkFailed, whether a sink call has returned an
\* error; panicked, whether fillHeader has hit its bad-writer-state panic.
NewWriter(kind) ==
    [ f |-> kind.f, s |-> kind.s,
      i |-> 0, j |-> 0, written |-> 0,
      baseOffset |-> kind.pos,
      blockNumber |-> 0,
      lastRecordOffset |-> 0 - 1,
      first |-> FALSE, pending |-> FALSE,
      err |-> Nil,
      buf |-> [k \in 0..(blockSize - 1) |-> 0],
      panicked |-> FALSE,
      sinkBytes |-> <<>>,
      calls |-> <<>>,
      sinkFailed |-> FALSE,
      fuse |-> NoFail ]

\* One call of w.w.Write(bytes): `_, w.err = w.w.Write(...)`.
sinkWrite(w, bytes) ==
    IF w.fuse = 0
    THEN [w EXCEPT !.err = ErrSinkWrite, !.calls = Append(@, "Write"),
                   !.sinkFailed = TRUE]
    ELSE [w EXCEPT !.err = Nil,
                   !.sinkBytes = @ \o bytes,
                   !.calls = Append(@, "Write"),
                   !.fuse = IF @ > 0 THEN @ - 1 ELSE @]

\* One call of w.f.Flush(): `w.err = w.f.Flush()`.
sinkFlush(w) ==
    IF w.fuse = 0
    THEN [w EXCEPT !.err = ErrSinkFlush, !.calls = Append(@, "Flush"),
                   !.sinkFailed = TRUE]
    ELSE [w EXCEPT !.err = Nil, !.calls = Append(@, "Flush"),
                   !.fuse = IF @ > 0 THEN @ - 1 ELSE @]

\* One call of w.s.Sync(): `w.err = w.s.Sync()`.
sinkSync(w) ==
    IF w.fuse = 0
    THEN [w EXCEPT !.err = ErrSinkSync, !.calls = Append(@, "Sync"),
                   !.sinkFailed = TRUE]
    ELSE [w EXCEPT !.err = Nil, !.calls = Append(@, "Sync"),
                   !.fuse = IF @ > 0 THEN @ - 1 ELSE @]

\* The chunk type with every chunk but the sealing one marked FIRST.
headerType_alwaysFirst(first, last) ==
    IF last
    THEN (IF first THEN fullChunkType ELSE lastChunkType)
    ELSE firstChunkType

\* The chunk type fillHeader stores.
headerType(first, last) ==
    IF last
    THEN (IF first THEN fullChunkType ELSE lastChunkType)
    ELSE (IF first THEN firstChunkType ELSE middleChunkType)

\* fillHeader with the checksum taken over the payload alone.
fillHeader_crcSkipsType(w, last) ==
    IF w.i + headerSize > w.j \/ w.j > blockSize
    THEN [w EXCEPT !.panicked = TRUE]
    ELSE LET b1 == Put(w.buf, w.i + 6, <<headerType(w.first, last)>>)
             b2 == Put(b1, w.i, PutUint32(crcValue(Slice(b1, w.i + 7, w.j))))
             b3 == Put(b2, w.i + 4, PutUint16((w.j - w.i - headerSize) % 65536))
         IN [w EXCEPT !.buf = b3]

\* fillHeader whose length field counts the header with the payload.
fillHeader_lengthWithHeader(w, last) ==
    IF w.i + headerSize > w.j \/ w.j > blockSize
    THEN [w EXCEPT !.panicked = TRUE]
    ELSE LET b1 == Put(w.buf, w.i + 6, <<headerType(w.first, last)>>)
             b2 == Put(b1, w.i, PutUint32(crcValue(Slice(b1, w.i + 6, w.j))))
             b3 == Put(b2, w.i + 4, PutUint16((w.j - w.i) % 65536))
         IN [w EXCEPT !.buf = b3]

\* fillHeader: type byte, then the checksum over buf[i+6:j], then the length.
fillHeader(w, last) ==
    IF w.i + headerSize > w.j \/ w.j > blockSize
    THEN [w EXCEPT !.panicked = TRUE]
    ELSE LET b1 == Put(w.buf, w.i + 6, <<headerType(w.first, last)>>)
             b2 == Put(b1, w.i, PutUint32(crcValue(Slice(b1, w.i + 6, w.j))))
             b3 == Put(b2, w.i + 4, PutUint16((w.j - w.i - headerSize) % 65536))
         IN [w EXCEPT !.buf = b3]

\* writeBlock pushing the whole buffer, flushed prefix included.
writeBlock_rewrites(w) ==
    LET w1 == sinkWrite(w, Slice(w.buf, 0, blockSize))
    IN [w1 EXCEPT !.i = 0, !.j = headerSize, !.written = 0, !.blockNumber = @ + 1]

\* writeBlock that leaves no room for the header of the next chunk.
writeBlock_noHeaderRoom(w) ==
    LET w1 == sinkWrite(w, Slice(w.buf, w.written, blockSize))
    IN [w1 EXCEPT !.i = 0, !.j = 0, !.written = 0, !.blockNumber = @ + 1]

\* writeBlock: the rest of the buffered block goes to the sink.
writeBlock(w) ==
    LET w1 == sinkWrite(w, Slice(w.buf, w.written, blockSize))
    IN [w1 EXCEPT !.i = 0, !.j = headerSize, !.written = 0, !.blockNumber = @ + 1]

\* writePending that forgets how far it has pushed.
writePending_keepsWritten(w) ==
    IF w.err # Nil THEN w
    ELSE LET w1 == IF w.pending
                   THEN [fillHeader(w, TRUE) EXCEPT !.pending = FALSE]
                   ELSE w
         IN sinkWrite(w1, Slice(w1.buf, w1.written, w1.j))

\* writePending that pushes the block to its end, zeros behind the chunks.
writePending_fillsBlock(w) ==
    IF w.err # Nil THEN w
    ELSE LET w1 == IF w.pending
                   THEN [fillHeader(w, TRUE) EXCEPT !.pending = FALSE]
                   ELSE w
             b1 == [k \in 0..(blockSize - 1) |-> IF k < w1.j THEN w1.buf[k] ELSE 0]
             w2 == sinkWrite(w1, Slice(b1, w1.written, blockSize))
         IN [w2 EXCEPT !.written = w2.j]

\* writePending: seal the pending chunk and push buf[written:j].
writePending(w) ==
    IF w.err # Nil THEN w
    ELSE LET w1 == IF w.pending
                   THEN [fillHeader(w, TRUE) EXCEPT !.pending = FALSE]
                   ELSE w
             w2 == sinkWrite(w1, Slice(w1.buf, w1.written, w1.j))
         IN [w2 EXCEPT !.written = w2.j]

\* Close that marks the Writer closed whatever writePending left in err.
Close_overwritesErr(w) ==
    LET w1 == writePending(w)
    IN [w |-> [w1 EXCEPT !.err = ErrClosed], err |-> Nil, n |-> 0]

\* Close that leaves the Writer usable.
Close_staysOpen(w) ==
    LET w1 == writePending(w)
    IN [w |-> w1, err |-> w1.err, n |-> 0]

\* Each method yields the Writer after the call and the value returned.
Close(w) ==
    LET w1 == writePending(w)
    IN IF w1.err # Nil
       THEN [w |-> w1, err |-> w1.err, n |-> 0]
       ELSE [w |-> [w1 EXCEPT !.err = ErrClosed], err |-> Nil, n |-> 0]

Flush(w) ==
    LET w1 == writePending(w)
    IN IF w1.err # Nil
       THEN [w |-> w1, err |-> w1.err, n |-> 0]
       ELSE IF w1.f
            THEN LET w2 == sinkFlush(w1) IN [w |-> w2, err |-> w2.err, n |-> 0]
            ELSE [w |-> w1, err |-> Nil, n |-> 0]

Sync(w) ==
    LET r1 == Flush(w)
    IN IF r1.err # Nil THEN r1
       ELSE IF r1.w.s
            THEN LET w2 == sinkSync(r1.w) IN [w |-> w2, err |-> w2.err, n |-> 0]
            ELSE [w |-> r1.w, err |-> Nil, n |-> 0]

\* The copy loop of Write: `for len(p) > 0 { ... }`.
RECURSIVE writeLoop(_, _, _)
writeLoop(w, p, n0) ==
    IF Len(p) = 0 THEN [w |-> w, err |-> Nil, n |-> n0]
    ELSE LET full == w.j = blockSize
             w1 == IF full THEN writeBlock(fillHeader(w, FALSE)) ELSE w
         IN IF full /\ w1.err # Nil
            THEN [w |-> w1, err |-> w1.err, n |-> 0]
            ELSE LET w2 == IF full THEN [w1 EXCEPT !.first = FALSE] ELSE w1
                     n == IF Len(p) < blockSize - w2.j THEN Len(p) ELSE blockSize - w2.j
                     w3 == [w2 EXCEPT !.buf = Put(@, w2.j, SubSeq(p, 1, n)),
                                      !.j = @ + n]
                 IN writeLoop(w3, SubSeq(p, n + 1, Len(p)), n0)

\* The start of a record without the zero fill of the block's tail.
startRecord_noZeroFill(w) ==
    LET w1 == [w EXCEPT !.i = w.j, !.j = w.j + headerSize]
        over == w1.j > blockSize
        w2 == IF over THEN writeBlock(w1) ELSE w1
    IN IF over /\ w2.err # Nil THEN w2
       ELSE [w2 EXCEPT !.lastRecordOffset =
                           w2.baseOffset + w2.blockNumber * blockSize + w2.i,
                       !.first = TRUE, !.pending = TRUE]

\* The start of a record in Write: `if !w.pending { ... }`.
startRecord(w) ==
    LET w1 == [w EXCEPT !.i = w.j, !.j = w.j + headerSize]
        over == w1.j > blockSize
        w2 == IF over
              THEN writeBlock([w1 EXCEPT !.buf =
                       [k \in DOMAIN @ |-> IF k >= w1.i THEN 0 ELSE @[k]]])
              ELSE w1
    IN IF over /\ w2.err # Nil THEN w2
       ELSE [w2 EXCEPT !.lastRecordOffset =
                           w2.baseOffset + w2.blockNumber * blockSize + w2.i,
                       !.first = TRUE, !.pending = TRUE]

Write(w, p) ==
    IF w.err # Nil THEN [w |-> w, err |-> w.err, n |-> 0]
    ELSE LET w1 == IF ~w.pending THEN startRecord(w) ELSE w
         IN IF w1.err # Nil
            THEN [w |-> w1, err |-> w1.err, n |-> 0]
            ELSE writeLoop(w1, p, Len(p))

Finish(w) ==
    LET w1 == IF w.pending
              THEN [fillHeader(w, TRUE) EXCEPT !.pending = FALSE]
              ELSE w
    IN [w |-> w1, err |-> w1.err, n |-> 0]

\* LastRecordOffset counted from where the Writer began.
LastRecordOffset_relative(w) ==
    IF w.err # Nil THEN [w |-> w, err |-> w.err, n |-> 0]
    ELSE IF w.lastRecordOffset < 0 THEN [w |-> w, err |-> ErrNoLastRecord, n |-> 0]
    ELSE [w |-> w, err |-> Nil, n |-> w.lastRecordOffset - w.baseOffset]

LastRecordOffset(w) ==
    IF w.err # Nil THEN [w |-> w, err |-> w.err, n |-> 0]
    ELSE IF w.lastRecordOffset < 0 THEN [w |-> w, err |-> ErrNoLastRecord, n |-> 0]
    ELSE [w |-> w, err |-> Nil, n |-> w.lastRecordOffset]

\* ------------------------------------------------------------------ Reader
\* NewReader over the byte stream src (offset o of the stream is src[o+1]);
\* pos is the position of the underlying io.Reader and io the number of
\* calls (Read, Seek) the current Reader call has made on it.
NewReader(src, seekable) ==
    [ src |-> src, pos |-> 0, seekable |-> seekable, io |-> 0,
      seq |-> 0, i |-> 0, j |-> 0, n |-> 0,
      started |-> FALSE, recovering |-> FALSE, last |-> FALSE,
      err |-> Nil,
      buf |-> [k \in 0..(blockSize - 1) |-> 0] ]

\* Recover that acts whether or not an error is stored.
Recover_always(r) ==
    [r EXCEPT !.recovering = TRUE, !.err = Nil,
              !.i = r.n, !.j = r.n, !.last = FALSE,
              !.seq = @ + 1]

\* Recover that leaves the sequence number as it is.
Recover_keepsSeq(r) ==
    IF r.err = Nil THEN r
    ELSE [r EXCEPT !.recovering = TRUE, !.err = Nil,
                   !.i = r.n, !.j = r.n, !.last = FALSE]

\* Recover: a no-op without a stored error; else the rest of the block is
\* dropped and outstanding singleReaders are made stale.
Recover(r) ==
    IF r.err = Nil THEN r
    ELSE [r EXCEPT !.recovering = TRUE, !.err = Nil,
                   !.i = r.n, !.j = r.n, !.last = FALSE,
                   !.seq = @ + 1]

\* io.ReadFull(r.r, r.buf[:]): as many bytes as the source still has, up to
\* a block; io.EOF when it has none, io.ErrUnexpectedEOF when fewer than a block.
readFull(r) ==
    LET avail == IF r.pos < Len(r.src) THEN Len(r.src) - r.pos ELSE 0
        n == IF avail < blockSize THEN avail ELSE blockSize
    IN [ r |-> [r EXCEPT !.buf = Put(@, 0, SubSeq(r.src, r.pos + 1, r.pos + n)),
                         !.pos = @ + n, !.io = @ + 1],
         n |-> n,
         err |-> IF n = 0 THEN EOF ELSE IF n < blockSize THEN ErrUnexpectedEOF ELSE Nil ]

RECURSIVE nextChunk(_, _)
\* nextChunk that takes any chunk when a record's first one is wanted.
nextChunk_anyType(r, wantFirst) ==
    IF r.j + headerSize <= r.n
    THEN LET checksum == Uint32(Slice(r.buf, r.j, r.j + 4))
             length == Uint16(Slice(r.buf, r.j + 4, r.j + 6))
             chunkType == r.buf[r.j + 6]
             r1 == [r EXCEPT !.i = r.j + headerSize, !.j = r.j + headerSize + length]
         IN IF checksum = Zero32 /\ length = 0 /\ chunkType = 0
            THEN IF wantFirst \/ r.recovering
                 THEN nextChunk(Recover([r EXCEPT !.err = ErrZeroed]), wantFirst)
                 ELSE [r |-> r, err |-> ErrInvalidChunk]
            ELSE IF r1.j > r1.n
            THEN IF r1.recovering
                 THEN nextChunk(Recover(r1), wantFirst)
                 ELSE [r |-> r1, err |-> ErrOverflow]
            ELSE IF checksum # crcValue(Slice(r1.buf, r1.i - 1, r1.j))
            THEN IF r1.recovering
                 THEN nextChunk(Recover(r1), wantFirst)
                 ELSE [r |-> r1, err |-> ErrChecksum]
            ELSE [ r |-> [r1 EXCEPT !.last = (chunkType = fullChunkType
                                                \/ chunkType = lastChunkType),
                                    !.recovering = FALSE],
                   err |-> Nil ]
    ELSE IF r.n < blockSize /\ r.started
    THEN [r |-> r, err |-> IF r.j # r.n THEN ErrUnexpectedEOF ELSE EOF]
    ELSE LET rf == readFull(r)
         IN IF rf.err # Nil /\ rf.err # ErrUnexpectedEOF
            THEN [r |-> rf.r, err |-> rf.err]
            ELSE nextChunk([rf.r EXCEPT !.i = 0, !.j = 0, !.n = rf.n], wantFirst)

\* nextChunk that takes an all-zero header for the end of the log.
nextChunk_zeroEnds(r, wantFirst) ==
    IF r.j + headerSize <= r.n
    THEN LET checksum == Uint32(Slice(r.buf, r.j, r.j + 4))
             length == Uint16(Slice(r.buf, r.j + 4, r.j + 6))
             chunkType == r.buf[r.j + 6]
             r1 == [r EXCEPT !.i = r.j + headerSize, !.j = r.j + headerSize + length]
         IN IF checksum = Zero32 /\ length = 0 /\ chunkType = 0
            THEN [r |-> r, err |-> EOF]
            ELSE IF r1.j > r1.n
            THEN IF r1.recovering
                 THEN nextChunk(Recover(r1), wantFirst)
                 ELSE [r |-> r1, err |-> ErrOverflow]
            ELSE IF checksum # crcValue(Slice(r1.buf, r1.i - 1, r1.j))
            THEN IF r1.recovering
                 THEN nextChunk(Recover(r1), wantFirst)
                 ELSE [r |-> r1, err |-> ErrChecksum]
            ELSE IF wantFirst /\ chunkType # fullChunkType /\ chunkType # firstChunkType
            THEN nextChunk(r1, wantFirst)
            ELSE [ r |-> [r1 EXCEPT !.last = (chunkType = fullChunkType
                                                \/ chunkType = lastChunkType),
                                    !.recovering = FALSE],
                   err |-> Nil ]
    ELSE IF r.n < blockSize /\ r.started
    THEN [r |-> r, err |-> IF r.j # r.n THEN ErrUnexpectedEOF ELSE EOF]
    ELSE LET rf == readFull(r)
         IN IF rf.err # Nil /\ rf.err # ErrUnexpectedEOF
            THEN [r |-> rf.r, err |-> rf.err]
            ELSE nextChunk([rf.r EXCEPT !.i = 0, !.j = 0, !.n = rf.n], wantFirst)

\* nextChunk that returns the zeroed-block error instead of skipping.
nextChunk_zeroReported(r, wantFirst) ==
    IF r.j + headerSize <= r.n
    THEN LET checksum == Uint32(Slice(r.buf, r.j, r.j + 4))
             length == Uint16(Slice(r.buf, r.j + 4, r.j + 6))
             chunkType == r.buf[r.j + 6]
             r1 == [r EXCEPT !.i = r.j + headerSize, !.j = r.j + headerSize + length]
         IN IF checksum = Zero32 /\ length = 0 /\ chunkType = 0
            THEN IF wantFirst \/ r.recovering
                 THEN [r |-> r, err |-> ErrZeroed]
                 ELSE [r |-> r, err |-> ErrInvalidChunk]
            ELSE IF r1.j > r1.n
            THEN IF r1.recovering
                 THEN nextChunk(Recover(r1), wantFirst)
                 ELSE [r |-> r1, err |-> ErrOverflow]
            ELSE IF checksum # crcValue(Slice(r1.buf, r1.i - 1, r1.j))
            THEN IF r1.recovering
                 THEN nextChunk(Recover(r1), wantFirst)
                 ELSE [r |-> r1, err |-> ErrChecksum]
            ELSE IF wantFirst /\ chunkType # fullChunkType /\ chunkType # firstChunkType
            THEN nextChunk(r1, wantFirst)
            ELSE [ r |-> [r1 EXCEPT !.last = (chunkType = fullChunkType
                                                \/ chunkType = lastChunkType),
                                    !.recovering = FALSE],
                   err |-> Nil ]
    ELSE IF r.n < blockSize /\ r.started
    THEN [r |-> r, err |-> IF r.j # r.n THEN ErrUnexpectedEOF ELSE EOF]
    ELSE LET rf == readFull(r)
         IN IF rf.err # Nil /\ rf.err # ErrUnexpectedEOF
            THEN [r |-> rf.r, err |-> rf.err]
            ELSE nextChunk([rf.r EXCEPT !.i = 0, !.j = 0, !.n = rf.n], wantFirst)

\* nextChunk that ends a short stream with io.EOF whatever is left of it.
nextChunk_alwaysEOF(r, wantFirst) ==
    IF r.j + headerSize <= r.n
    THEN LET checksum == Uint32(Slice(r.buf, r.j, r.j + 4))
             length == Uint16(Slice(r.buf, r.j + 4, r.j + 6))
             chunkType == r.buf[r.j + 6]
             r1 == [r EXCEPT !.i = r.j + headerSize, !.j = r.j + headerSize + length]
         IN IF checksum = Zero32 /\ length = 0 /\ chunkType = 0
            THEN IF wantFirst \/ r.recovering
                 THEN nextChunk(Recover([r EXCEPT !.err = ErrZeroed]), wantFirst)
                 ELSE [r |-> r, err |-> ErrInvalidChunk]
            ELSE IF r1.j > r1.n
            THEN IF r1.recovering
                 THEN nextChunk(Recover(r1), wantFirst)
                 ELSE [r |-> r1, err |-> ErrOverflow]
            ELSE IF checksum # crcValue(Slice(r1.buf, r1.i - 1, r1.j))
            THEN IF r1.recovering
                 THEN nextChunk(Recover(r1), wantFirst)
                 ELSE [r |-> r1, err |-> ErrChecksum]
            ELSE IF wantFirst /\ chunkType # fullChunkType /\ chunkType # firstChunkType
            THEN nextChunk(r1, wantFirst)
            ELSE [ r |-> [r1 EXCEPT !.last = (chunkType = fullChunkType
                                                \/ chunkType = lastChunkType),
                                    !.recovering = FALSE],
                   err |-> Nil ]
    ELSE IF r.n < blockSize /\ r.started
    THEN [r |-> r, err |-> EOF]
    ELSE LET rf == readFull(r)
         IN IF rf.err # Nil /\ rf.err # ErrUnexpectedEOF
            THEN [r |-> rf.r, err |-> rf.err]
            ELSE nextChunk([rf.r EXCEPT !.i = 0, !.j = 0, !.n = rf.n], wantFirst)

\* nextChunk: the Reader after the call and the error returned.
nextChunk(r, wantFirst) ==
    IF r.j + headerSize <= r.n
    THEN LET checksum == Uint32(Slice(r.buf, r.j, r.j + 4))
             length == Uint16(Slice(r.buf, r.j + 4, r.j + 6))
             chunkType == r.buf[r.j + 6]
             r1 == [r EXCEPT !.i = r.j + headerSize, !.j = r.j + headerSize + length]
         IN IF checksum = Zero32 /\ length = 0 /\ chunkType = 0
            THEN IF wantFirst \/ r.recovering
                 THEN nextChunk(Recover([r EXCEPT !.err = ErrZeroed]), wantFirst)
                 ELSE [r |-> r, err |-> ErrInvalidChunk]
            ELSE IF r1.j > r1.n
            THEN IF r1.recovering
                 THEN nextChunk(Recover(r1), wantFirst)
                 ELSE [r |-> r1, err |-> ErrOverflow]
            ELSE IF checksum # crcValue(Slice(r1.buf, r1.i - 1, r1.j))
            THEN IF r1.recovering
                 THEN nextChunk(Recover(r1), wantFirst)
                 ELSE [r |-> r1, err |-> ErrChecksum]
            ELSE IF wantFirst /\ chunkType # fullChunkType /\ chunkType # firstChunkType
            THEN nextChunk(r1, wantFirst)
            ELSE [ r |-> [r1 EXCEPT !.last = (chunkType = fullChunkType
                                                \/ chunkType = lastChunkType),
                                    !.recovering = FALSE],
                   err |-> Nil ]
    ELSE IF r.n < blockSize /\ r.started
    THEN [r |-> r, err |-> IF r.j # r.n THEN ErrUnexpectedEOF ELSE EOF]
    ELSE LET rf == readFull(r)
         IN IF rf.err # Nil /\ rf.err # ErrUnexpectedEOF
            THEN [r |-> rf.r, err |-> rf.err]
            ELSE nextChunk([rf.r EXCEPT !.i = 0, !.j = 0, !.n = rf.n], wantFirst)

\* Next that goes on reading whatever error is stored.
ReaderNext_ignoresErr(r) ==
    LET r0 == [r EXCEPT !.seq = @ + 1]
        c == nextChunk([r0 EXCEPT !.i = r0.j], TRUE)
        r1 == [c.r EXCEPT !.err = c.err]
    IN IF c.err # Nil
       THEN [r |-> r1, err |-> c.err, seq |-> 0]
       ELSE [r |-> [r1 EXCEPT !.started = TRUE], err |-> Nil, seq |-> r1.seq]

\* Next taking whatever chunk comes next as the start of a record.
ReaderNext_anyChunk(r) ==
    LET r0 == [r EXCEPT !.seq = @ + 1]
    IN IF r0.err # Nil THEN [r |-> r0, err |-> r0.err, seq |-> 0]
       ELSE LET c == nextChunk([r0 EXCEPT !.i = r0.j], FALSE)
                r1 == [c.r EXCEPT !.err = c.err]
            IN IF c.err # Nil
               THEN [r |-> r1, err |-> c.err, seq |-> 0]
               ELSE [r |-> [r1 EXCEPT !.started = TRUE], err |-> Nil, seq |-> r1.seq]

\* Next: the Reader after the call, the error returned and, on success, the
\* sequence number the returned singleReader is bound to.
ReaderNext(r) ==
    LET r0 == [r EXCEPT !.seq = @ + 1]
    IN IF r0.err # Nil THEN [r |-> r0, err |-> r0.err, seq |-> 0]
       ELSE LET c == nextChunk([r0 EXCEPT !.i = r0.j], TRUE)
                r1 == [c.r EXCEPT !.err = c.err]
            IN IF c.err # Nil
               THEN [r |-> r1, err |-> c.err, seq |-> 0]
               ELSE [r |-> [r1 EXCEPT !.started = TRUE], err |-> Nil, seq |-> r1.seq]

\* offset & blockSizeMask and offset &^ blockSizeMask on non-negative offsets.
RECURSIVE BitAnd(_, _)
BitAnd(x, m) ==
    IF x = 0 \/ m = 0 THEN 0
    ELSE (x % 2) * (m % 2) + 2 * BitAnd(x \div 2, m \div 2)

BitAndNot(x, m) == x - BitAnd(x, m)

SeekRecord(r, offset) ==
    LET r0 == [r EXCEPT !.seq = @ + 1]
    IN IF r0.err # Nil THEN [r |-> r0, err |-> r0.err]
       ELSE IF ~r0.seekable THEN [r |-> r0, err |-> ErrNotAnIOSeeker]
       ELSE IF offset < 0
       THEN [r |-> [r0 EXCEPT !.err = ErrSeek, !.io = @ + 1], err |-> ErrSeek]
       ELSE LET c == BitAnd(offset, blockSizeMask)
                r1 == [r0 EXCEPT !.pos = BitAndNot(offset, blockSizeMask),
                                 !.io = @ + 1,
                                 !.i = 0, !.j = 0, !.n = 0,
                                 !.started = FALSE, !.recovering = FALSE,
                                 !.last = FALSE]
                ch == nextChunk(r1, FALSE)
                r2 == [ch.r EXCEPT !.err = ch.err]
            IN IF ch.err # Nil THEN [r |-> r2, err |-> ch.err]
               ELSE [r |-> [r2 EXCEPT !.i = c, !.j = c], err |-> Nil]

\* The loop of Read asking nextChunk for the first chunk of a record.
RECURSIVE readLoop_wantsFirst(_, _)
readLoop_wantsFirst(r, plen) ==
    IF r.i = r.j
    THEN IF r.last THEN [r |-> r, data |-> <<>>, err |-> EOF]
         ELSE LET c == nextChunk(r, TRUE)
                  r1 == [c.r EXCEPT !.err = c.err]
              IN IF c.err # Nil THEN [r |-> r1, data |-> <<>>, err |-> c.err]
                 ELSE readLoop_wantsFirst(r1, plen)
    ELSE LET n == IF plen < r.j - r.i THEN plen ELSE r.j - r.i
         IN [r |-> [r EXCEPT !.i = @ + n], data |-> Slice(r.buf, r.i, r.i + n), err |-> Nil]

\* The loop of Read refusing a FULL or FIRST chunk inside a record.
RECURSIVE readLoop_checksType(_, _)
readLoop_checksType(r, plen) ==
    IF r.i = r.j
    THEN IF r.last THEN [r |-> r, data |-> <<>>, err |-> EOF]
         ELSE LET c == nextChunk(r, FALSE)
                  stray == /\ c.err = Nil
                           /\ c.r.buf[c.r.i - 1] \in {fullChunkType, firstChunkType}
                  e == IF stray THEN ErrInvalidChunk ELSE c.err
                  r1 == [c.r EXCEPT !.err = e]
              IN IF e # Nil THEN [r |-> r1, data |-> <<>>, err |-> e]
                 ELSE readLoop_checksType(r1, plen)
    ELSE LET n == IF plen < r.j - r.i THEN plen ELSE r.j - r.i
         IN [r |-> [r EXCEPT !.i = @ + n], data |-> Slice(r.buf, r.i, r.i + n), err |-> Nil]

\* The loop of Read copying as much as p holds, whatever the chunk's end.
RECURSIVE readLoop_pastChunk(_, _)
readLoop_pastChunk(r, plen) ==
    IF r.i = r.j
    THEN IF r.last THEN [r |-> r, data |-> <<>>, err |-> EOF]
         ELSE LET c == nextChunk(r, FALSE)
                  r1 == [c.r EXCEPT !.err = c.err]
              IN IF c.err # Nil THEN [r |-> r1, data |-> <<>>, err |-> c.err]
                 ELSE readLoop_pastChunk(r1, plen)
    ELSE LET n == IF plen < blockSize - r.i THEN plen ELSE blockSize - r.i
         IN [r |-> [r EXCEPT !.i = @ + n], data |-> Slice(r.buf, r.i, r.i + n), err |-> Nil]

\* singleReader.Read on the source bound to xseq, into a buffer of plen bytes:
\* the Reader after the call, the bytes copied and the error returned.
RECURSIVE readLoop(_, _)
readLoop(r, plen) ==
    IF r.i = r.j
    THEN IF r.last THEN [r |-> r, data |-> <<>>, err |-> EOF]
         ELSE LET c == nextChunk(r, FALSE)
                  r1 == [c.r EXCEPT !.err = c.err]
              IN IF c.err # Nil THEN [r |-> r1, data |-> <<>>, err |-> c.err]
                 ELSE readLoop(r1, plen)
    ELSE LET n == IF plen < r.j - r.i THEN plen ELSE r.j - r.i
         IN [r |-> [r EXCEPT !.i = @ + n], data |-> Slice(r.buf, r.i, r.i + n), err |-> Nil]

Read(r, xseq, plen) ==
    IF r.seq # xseq THEN [r |-> r, data |-> <<>>, err |-> ErrStale]
    ELSE IF r.err # Nil THEN [r |-> r, data |-> <<>>, err |-> r.err]
    ELSE readLoop(r, plen)

\* ----------------------------------------------------- the caller's loops
\* ioutil.ReadAll on a payload source: Read until io.EOF or an error.
RECURSIVE readAll(_, _, _)
readAll(r, xseq, acc) ==
    LET x == Read(r, xseq, ReadLen)
    IN IF x.err = EOF THEN [r |-> x.r, data |-> acc, err |-> Nil]
       ELSE IF x.err # Nil THEN [r |-> x.r, data |-> acc, err |-> x.err]
       ELSE readAll(x.r, xseq, acc \o x.data)

\* The read loop of the package documentation: Next until io.EOF, every
\* record read to its end; with recover, Recover after each error and go on,
\* without it the first error ends the loop.  Yields the records read and
\* how the loop ended.
RECURSIVE readRecords(_, _, _)
readRecords(r, acc, recover) ==
    LET nx == ReaderNext(r)
    IN IF nx.err = EOF THEN [recs |-> acc, end |-> EOF, r |-> nx.r]
       ELSE IF nx.err # Nil
       THEN IF recover THEN readRecords(Recover(nx.r), acc, recover)
            ELSE [recs |-> acc, end |-> nx.err, r |-> nx.r]
       ELSE LET ra == readAll(nx.r, nx.seq, <<>>)
            IN IF ra.err # Nil
               THEN IF recover THEN readRecords(Recover(ra.r), acc, recover)
                    ELSE [recs |-> acc, end |-> ra.err, r |-> ra.r]
               ELSE readRecords(ra.r, Append(acc, ra.data), recover)

\* ----------------------------------------------------------- state machine
\* w: the Writer (with its sink); ret: what the last call returned;
\* recs: the payloads of the records started so far, as the caller wrote them;
\* offs: LastRecordOffset as captured right after each record was started;
\* nwrites: Write calls made on a Writer without a stored error; midFlush: the number of the first block of
\* which a Flush, Sync or Close pushed a prefix that ends inside the block
\* (-1: none yet).
\* rd: the Reader (with its io.Reader: src, pos); handles: the sequence
\* numbers of the two singleReaders the caller got last; live: the
\* singleReader no later Next, Recover on an error or SeekRecord has come
\* after, with the stream offset of its record's first chunk header and the
\* number of bytes it has delivered; rret: what the last Reader call returned
\* (for Next, with the bytes the singleReader live before it had delivered);
\* nops: Reader calls made.
\* dec: the buffer handed to DecodeHandle and what the call gave back.
VARIABLES w, ret, recs, offs, nwrites, midFlush, rd, handles, live, rret, nops, dec

writerVars == <<w, ret, recs, offs, nwrites, midFlush>>
readerVars == <<rd, handles, live, rret, nops>>
vars == <<w, ret, recs, offs, nwrites, midFlush, rd, handles, live, rret, nops, dec>>

\* The payloads handed to Write: empty, short, one that fills a fresh block
\* exactly, and one longer than a block's payload.
WriteLens == {0, 2, blockSize - headerSize, blockSize - 4}
\* Where the sink fails: never, or at the call's first, second or third
\* sink call.
FuseValues == {NoFail, 0, 1, 2}

\* The bytes of the nth Write call: a pattern over {0, 1, 2} that shifts with
\* every call, so records differ in content as well as in length.
Payload(len, nth) == [k \in 1..len |-> (nth + k) % 3]

SinkErrors == {ErrSinkWrite, ErrSinkFlush, ErrSinkSync}

\* No singleReader: sequence numbers of singleReaders start at 1.
NoHandle == [seq |-> 0, off |-> 0 - 1, got |-> 0]

\* No Reader at work: a Reader over nothing, no call made on it.
NoReader ==
    /\ rd = NewReader(<<>>, FALSE)
    /\ handles = <<>>
    /\ live = NoHandle
    /\ rret = [op |-> "NewReader", err |-> Nil, data |-> <<>>, off |-> 0 - 1, x |-> 0,
               got |-> 0]
    /\ nops = 0

\* No DecodeHandle call.
NoDecode == dec = [src |-> <<>>, done |-> FALSE]

Init ==
    /\ w \in {NewWriter(kind) : kind \in SinkKinds}
    /\ ret = [op |-> "NewWriter", err |-> Nil, n |-> 0]
    /\ recs = <<>>
    /\ offs = <<>>
    /\ nwrites = 0
    /\ midFlush = 0 - 1
    /\ NoReader
    /\ NoDecode

\* The Writer as the call finds it: no sink call made yet by this call.
Armed(fuse) == [w EXCEPT !.calls = <<>>, !.fuse = fuse]

\* The Writer as the call leaves it.
Settle(r, op) ==
    /\ w' = [r.w EXCEPT !.fuse = NoFail]
    /\ ret' = [op |-> op, err |-> r.err, n |-> r.n]
    /\ midFlush' = IF /\ midFlush < 0 /\ r.err = Nil
                       /\ op \in {"Flush", "Sync", "Close"}
                       /\ r.w.written > 0 /\ r.w.written < blockSize
                    THEN r.w.blockNumber ELSE midFlush
    /\ UNCHANGED <<readerVars, dec>>

DoWrite(p, fuse) ==
    /\ nwrites < MaxWrites
    /\ \E r \in {Write(Armed(fuse), p)} :
       LET started == ~w.pending /\ r.w.pending
       IN /\ Settle(r, "Write")
          /\ recs' = IF r.err # Nil THEN recs
                     ELSE IF started THEN Append(recs, p)
                     ELSE [recs EXCEPT ![Len(recs)] = @ \o p]
          /\ offs' = IF started /\ r.err = Nil
                     THEN Append(offs, LastRecordOffset(r.w).n)
                     ELSE offs
    /\ nwrites' = IF w.err = Nil THEN nwrites + 1 ELSE nwrites

DoFinish ==
    /\ \E r \in {Finish(Armed(NoFail))} : Settle(r, "Finish")
    /\ UNCHANGED <<recs, offs, nwrites>>

DoFlush(fuse) ==
    /\ \E r \in {Flush(Armed(fuse))} : Settle(r, "Flush")
    /\ UNCHANGED <<recs, offs, nwrites>>

DoSync(fuse) ==
    /\ \E r \in {Sync(Armed(fuse))} : Settle(r, "Sync")
    /\ UNCHANGED <<recs, offs, nwrites>>

DoClose(fuse) ==
    /\ \E r \in {Close(Armed(fuse))} : Settle(r, "Close")
    /\ UNCHANGED <<recs, offs, nwrites>>

DoLastRecordOffset ==
    /\ \E r \in {LastRecordOffset(Armed(NoFail))} : Settle(r, "LastRecordOffset")
    /\ UNCHANGED <<recs, offs, nwrites>>

Next ==
    \/ \E len \in WriteLens, fuse \in FuseValues \ {2} :
           DoWrite(Payload(len, nwrites), fuse)
    \/ DoFinish
    \/ \E fuse \in FuseValues \ {2} : DoFlush(fuse)
    \/ \E fuse \in FuseValues : DoSync(fuse)
    \/ \E fuse \in {NoFail, 0} : DoClose(fuse)
    \/ DoLastRecordOffset

Spec == Init /\ [][Next]_vars

\* The Writer on a file, positioned at a block boundary, that never fails:
\* the runs whose delivered bytes are read back.  (LastRecordOffset changes
\* nothing a Reader sees.)
InitNoFail ==
    /\ Init
    /\ w.f /\ w.s /\ w.baseOffset = blockSize

NextNoFail ==
    \/ \E len \in WriteLens : DoWrite(Payload(len, nwrites), NoFail)
    \/ DoFinish
    \/ DoFlush(NoFail)
    \/ DoSync(NoFail)
    \/ DoClose(NoFail)

SpecNoFail == InitNoFail /\ [][NextNoFail]_vars

\* ------------------------------------------------------- the wire format
\* The chunks of a stream, walked as the format lays them out (package
\* documentation, "The wire format is ..."): chunk after chunk inside a
\* block, and a tail shorter than a header is padding that must be zero.  ok
\* is whether every chunk walked is whole, has one of the four types and the
\* checksum of its type byte and payload, and every padding byte is zero.
Min(a, b) == IF a < b THEN a ELSE b

RECURSIVE walk(_, _, _)
walk(s, pos, acc) ==
    LET o == pos % blockSize
    IN IF pos >= Len(s) THEN [chunks |-> acc, ok |-> TRUE]
       ELSE IF blockSize - o < headerSize
       THEN IF \A k \in pos..(Min(pos + blockSize - o, Len(s)) - 1) : s[k + 1] = 0
            THEN walk(s, pos + blockSize - o, acc)
            ELSE [chunks |-> acc, ok |-> FALSE]
       ELSE IF pos + headerSize > Len(s) THEN [chunks |-> acc, ok |-> FALSE]
       ELSE LET L == Uint16(SubSeq(s, pos + 5, pos + 6))
                t == s[pos + 7]
            IN IF \/ pos + headerSize + L > Len(s)
                  \/ t \notin {fullChunkType, firstChunkType, middleChunkType, lastChunkType}
                  \/ Uint32(SubSeq(s, pos + 1, pos + 4))
                         # crcValue(SubSeq(s, pos + 7, pos + headerSize + L))
               THEN [chunks |-> acc, ok |-> FALSE]
               ELSE walk(s, pos + headerSize + L,
                         Append(acc, [off |-> pos, len |-> L, typ |-> t]))

Chunks(s) == walk(s, 0, <<>>)

\* The chunks cs of stream s grouped into records: ok is whether the types
\* follow FULL | FIRST MIDDLE* LAST; recs are the payloads of the complete
\* records, blks the blocks each of them has a chunk in, open whether the
\* stream ends inside a record.
RECURSIVE group(_, _, _, _, _, _, _)
group(s, cs, k, inRec, cur, curBlks, acc) ==
    IF k > Len(cs)
    THEN [ok |-> TRUE, recs |-> acc.recs, blks |-> acc.blks, open |-> inRec]
    ELSE LET c == cs[k]
             pl == cur \o SubSeq(s, c.off + headerSize + 1, c.off + headerSize + c.len)
             bl == curBlks \cup {c.off \div blockSize}
             done == [recs |-> Append(acc.recs, pl), blks |-> Append(acc.blks, bl)]
             bad == [ok |-> FALSE, recs |-> acc.recs, blks |-> acc.blks, open |-> inRec]
         IN IF c.typ = fullChunkType
            THEN IF inRec THEN bad ELSE group(s, cs, k + 1, FALSE, <<>>, {}, done)
            ELSE IF c.typ = firstChunkType
            THEN IF inRec THEN bad ELSE group(s, cs, k + 1, TRUE, pl, bl, acc)
            ELSE IF c.typ = middleChunkType
            THEN IF ~inRec THEN bad ELSE group(s, cs, k + 1, TRUE, pl, bl, acc)
            ELSE IF c.typ = lastChunkType
            THEN IF ~inRec THEN bad ELSE group(s, cs, k + 1, FALSE, <<>>, {}, done)
            ELSE bad

Records(s) == group(s, Chunks(s).chunks, 1, FALSE, <<>>, {}, [recs |-> <<>>, blks |-> <<>>])

\* Whether a is b with some elements left out.
RECURSIVE IsSubseq(_, _)
IsSubseq(a, b) ==
    IF Len(a) = 0 THEN TRUE
    ELSE IF Len(b) = 0 THEN FALSE
    ELSE IF Head(a) = Head(b) THEN IsSubseq(Tail(a), Tail(b))
    ELSE IsSubseq(a, Tail(b))

\* The writer has sealed and delivered everything it was given.
Delivered == ~w.sinkFailed /\ ~w.pending /\ w.written = w.j

\* One bit of a byte flipped: the low bit or the high bit.
FlipMasks == {1, 128}
FlipBit(b, m) == IF (b \div m) % 2 = 1 THEN b - m ELSE b + m
Corrupt(s, pos, m) == [s EXCEPT ![pos + 1] = FlipBit(@, m)]

\* ------------------------------------------------------ the Reader at work
\* What a Writer on a plain io.Writer delivers for records of the lengths
\* lens, each written by one Write and a Finish, with Close at the end: the
\* closed Writer, the records and the LastRecordOffset of each.
RECURSIVE writeLog(_, _, _, _, _)
writeLog(wr, lens, k, rs, os) ==
    IF k > Len(lens) THEN [w |-> Close(wr).w, recs |-> rs, offs |-> os]
    ELSE LET p == Payload(lens[k], k)
             w1 == Write(wr, p).w
         IN writeLog(Finish(w1).w, lens, k + 1,
                     Append(rs, p), Append(os, LastRecordOffset(w1).n))

\* The logs read: two records that fill a block and a third in the next; a
\* record that fills a block and two that share the next; a record of two
\* chunks with an empty one behind it; a single short record; a short record
\* and one whose first chunk is the bare header that ends the block; and two
\* logs of three blocks or more in which the second record begins with that
\* bare header and ends four bytes before the end of the second block, so
\* that the third record begins the third block, with a FULL chunk in the
\* one log and with a FIRST chunk in the other.
LogLens ==
    { <<0, 2, 2>>, <<blockSize - headerSize, 0, 2>>, <<blockSize - 4, 0>>, <<2>>,
      <<blockSize - headerSize - headerSize, 2>>,
      <<blockSize - headerSize - headerSize, blockSize - headerSize - 4, 2>>,
      <<blockSize - headerSize - headerSize, blockSize - headerSize - 4,
        blockSize - headerSize + 1>> }

\* Damage done to a log before it is read: the checksums of the chunks
\* numbered in flip (two at most) get a bit flipped, and a block of zeros is
\* put in after the first block, which is filled up with zeros if it was
\* short (a file preallocated or mapped before it was written).  Or the
\* stream is cut short (a write that never reached the file): of its first
\* chunk, or of its last chunk, only keep bytes are left, which is a part
\* of the header or the header and one byte of the payload.
\* Or its second block is lost and the blocks behind it follow the first.
CutKeeps == {1, headerSize - 1, headerSize + 1}

Undamaged == [zero |-> FALSE, flip |-> {}, cut |-> "none", keep |-> 0, drop |-> FALSE]

Damages ==
    { [Undamaged EXCEPT !.zero = z, !.flip = f] :
          z \in BOOLEAN, f \in {F \in SUBSET (1..3) : Cardinality(F) <= 2} }
    \cup { [Undamaged EXCEPT !.cut = c, !.keep = k] :
               c \in {"first", "last"}, k \in CutKeeps }
    \cup { [Undamaged EXCEPT !.drop = TRUE] }

Zeros(n) == [k \in 1..n |-> 0]

Damaged(s, dmg) ==
    LET cs == Chunks(s).chunks
        s1 == [k \in 1..Len(s) |->
                  IF \E c \in dmg.flip : c <= Len(cs) /\ cs[c].off + 1 = k
                  THEN FlipBit(s[k], 1) ELSE s[k]]
        head == SubSeq(s1, 1, Min(blockSize, Len(s1)))
    IN IF dmg.zero
       THEN head \o Zeros(blockSize - Len(head)) \o Zeros(blockSize)
                \o SubSeq(s1, blockSize + 1, Len(s1))
       ELSE IF dmg.cut = "first" THEN SubSeq(s1, 1, Min(dmg.keep, Len(s1)))
       ELSE IF dmg.cut = "last"
       THEN SubSeq(s1, 1, Min(cs[Len(cs)].off + dmg.keep, Len(s1)))
       ELSE IF dmg.drop THEN head \o SubSeq(s1, 2 * blockSize + 1, Len(s1))
       ELSE s1

InitReader ==
    /\ \E lens \in LogLens, dmg \in Damages :
           LET lg == writeLog(NewWriter([f |-> FALSE, s |-> FALSE, pos |-> 0]),
                              lens, 1, <<>>, <<>>)
           IN /\ w = lg.w
              /\ recs = lg.recs
              /\ offs = lg.offs
              /\ nwrites = Len(lens)
              /\ midFlush = IF lg.w.written > 0 /\ lg.w.written < blockSize
                            THEN lg.w.blockNumber ELSE 0 - 1
              /\ rd = NewReader(Damaged(lg.w.sinkBytes, dmg), TRUE)
    /\ ret = [op |-> "Close", err |-> Nil, n |-> 0]
    /\ handles = <<>>
    /\ live = NoHandle
    /\ rret = [op |-> "NewReader", err |-> Nil, data |-> <<>>, off |-> 0 - 1, x |-> 0,
               got |-> 0]
    /\ nops = 0
    /\ NoDecode

\* The Reader as a call finds it: no call made on its io.Reader by this call.
Entered == [rd EXCEPT !.io = 0]

\* The caller keeps the two singleReaders it got last.
Keep(hs) == IF Len(hs) > 2 THEN Tail(hs) ELSE hs

DoNext ==
    /\ nops < MaxReaderOps
    /\ LET nx == ReaderNext(Entered)
           off == IF nx.err = Nil
                  THEN nx.r.pos - nx.r.n + nx.r.i - headerSize ELSE 0 - 1
       IN /\ rd' = nx.r
          /\ handles' = IF nx.err = Nil THEN Keep(Append(handles, nx.seq)) ELSE handles
          /\ live' = IF nx.err = Nil THEN [seq |-> nx.seq, off |-> off, got |-> 0]
                      ELSE NoHandle
          /\ rret' = [op |-> "Next", err |-> nx.err, data |-> <<>>, off |-> off,
                      x |-> nx.seq, got |-> live.got]
    /\ nops' = nops + 1
    /\ UNCHANGED <<writerVars, dec>>

DoRead(x, plen) ==
    /\ nops < MaxReaderOps
    /\ LET rr == Read(Entered, x, plen)
       IN /\ rd' = rr.r
          /\ rret' = [op |-> "Read", err |-> rr.err, data |-> rr.data, off |-> 0 - 1,
                      x |-> x, got |-> 0]
          /\ live' = IF x = live.seq THEN [live EXCEPT !.got = @ + Len(rr.data)]
                      ELSE live
    /\ nops' = nops + 1
    /\ UNCHANGED <<writerVars, handles, dec>>

DoRecover ==
    /\ nops < MaxReaderOps
    /\ rd' = Recover(Entered)
    /\ live' = IF rd.err # Nil THEN NoHandle ELSE live
    /\ rret' = [op |-> "Recover", err |-> Nil, data |-> <<>>, off |-> 0 - 1, x |-> 0,
                got |-> 0]
    /\ nops' = nops + 1
    /\ UNCHANGED <<writerVars, handles, dec>>

DoSeekRecord(offset) ==
    /\ nops < MaxReaderOps
    /\ LET sk == SeekRecord(Entered, offset)
       IN /\ rd' = sk.r
          /\ rret' = [op |-> "SeekRecord", err |-> sk.err, data |-> <<>>,
                      off |-> offset, x |-> 0, got |-> 0]
    /\ live' = NoHandle
    /\ nops' = nops + 1
    /\ UNCHANGED <<writerVars, handles, dec>>

NextReader ==
    \/ DoNext
    \/ \E k \in 1..Len(handles) : DoRead(handles[k], ReadLen)
    \/ DoRecover
    \/ \E k \in 1..Len(offs) : DoSeekRecord(offs[k])

SpecReader == InitReader /\ [][NextReader]_vars

\* ------------------------------------------------------------ round trip
\* C1: the records written through a Writer whose sink never failed, once
\* Close has returned nil, are read back from the delivered bytes by a fresh
\* Reader exactly, in order, and Next then returns io.EOF.
RoundTrip ==
    (ret.op = "Close" /\ ret.err = Nil /\ ~w.sinkFailed)
        => LET got == readRecords(NewReader(w.sinkBytes, FALSE), <<>>, FALSE)
           IN got.recs = recs /\ got.end = EOF

\* A closed stream with an empty record and a record of three chunks.
RoundTripWitness ==
    /\ ret.op = "Close" /\ ret.err = Nil /\ ~w.sinkFailed
    /\ \E a, b \in 1..Len(recs) : Len(recs[a]) = 0 /\ Len(recs[b]) > 2 * (blockSize - headerSize)

\* C2: after every Flush and Sync that returned nil, a fresh Reader over the
\* bytes delivered so far yields all records written before it, in order,
\* then io.EOF.
FlushReadable ==
    (ret.op \in {"Flush", "Sync"} /\ ret.err = Nil /\ ~w.sinkFailed)
        => LET got == readRecords(NewReader(w.sinkBytes, FALSE), <<>>, FALSE)
           IN got.recs = recs /\ got.end = EOF

\* A Flush after an earlier push that ended inside a block which has since
\* been completed.
FlushReadableWitness ==
    /\ ret.op = "Flush" /\ ret.err = Nil /\ ~w.sinkFailed
    /\ midFlush >= 0 /\ midFlush < w.blockNumber /\ Len(recs) >= 2

\* -------------------------------------------------------------- corruption
\* The bytes of a chunk of len payload bytes that get a bit flipped, as
\* offsets from the chunk's start: each header byte, and the first and the
\* last payload byte (the Reader looks at payload bytes only through the
\* checksum of the whole span).
FlipOffsets(len) ==
    (0..(headerSize - 1))
        \cup (IF len > 0 THEN {headerSize, headerSize + len - 1} ELSE {})

\* Whether the chunk at c.off of stream s fails the checks nextChunk makes on
\* it: an all-zero header, a length that overruns the valid bytes of its
\* block, or a checksum that does not match.
ChunkFails(s, c) ==
    LET checksum == Uint32(SubSeq(s, c.off + 1, c.off + 4))
        length == Uint16(SubSeq(s, c.off + 5, c.off + 6))
        n == Min((c.off \div blockSize + 1) * blockSize, Len(s))
    IN \/ checksum = Zero32 /\ length = 0 /\ s[c.off + 7] = 0
       \/ c.off + headerSize + length > n
       \/ checksum # crcValue(SubSeq(s, c.off + 7, c.off + headerSize + length))

\* The records among rs (with blocks bs) that have no chunk in block b.
RECURSIVE outside(_, _, _, _)
outside(rs, bs, b, k) ==
    IF k > Len(rs) THEN <<>>
    ELSE IF b \in bs[k] THEN outside(rs, bs, b, k + 1)
    ELSE <<rs[k]>> \o outside(rs, bs, b, k + 1)

\* C3: in the stream of a closed Writer, whichever bit of whichever chunk
\* (header or payload) is flipped so that the chunk fails validation, the
\* read loop that calls Recover after every error yields every record that
\* has no chunk in the corrupted block, yields only records that were
\* written, in the order written, and ends with io.EOF.
CorruptionRecovery ==
    (ret.op = "Close" /\ ret.err = Nil /\ ~w.sinkFailed)
        => LET s == w.sinkBytes
               cs == Chunks(s).chunks
               g == Records(s)
           IN \A ci \in 1..Len(cs) :
                  \A d \in FlipOffsets(cs[ci].len) :
                      \A m \in FlipMasks :
                          LET c == cs[ci]
                              s2 == Corrupt(s, c.off + d, m)
                              got == readRecords(NewReader(s2, FALSE), <<>>, TRUE)
                          IN ChunkFails(s2, c)
                                 => /\ IsSubseq(outside(g.recs, g.blks, c.off \div blockSize, 1),
                                                got.recs)
                                    /\ IsSubseq(got.recs, recs)
                                    /\ got.end = EOF

\* A closed stream of three blocks whose middle block, once hit, costs the
\* record that runs through it while records wholly in the first and in the
\* last block are still read.
CorruptionRecoveryWitness ==
    /\ ret.op = "Close" /\ ret.err = Nil /\ ~w.sinkFailed
    /\ LET g == Records(w.sinkBytes)
       IN /\ g.recs = recs /\ Len(recs) = 3
          /\ g.blks[1] = {0} /\ 1 \in g.blks[2] /\ 1 \notin g.blks[3]
          /\ \E c \in {Chunks(w.sinkBytes).chunks[k] : k \in 1..Len(Chunks(w.sinkBytes).chunks)} :
                 /\ c.off \div blockSize = 1
                 /\ LET s2 == Corrupt(w.sinkBytes, c.off + headerSize, 1)
                    IN /\ ChunkFails(s2, c)
                       /\ readRecords(NewReader(s2, FALSE), <<>>, TRUE).recs
                              = <<recs[1], recs[3]>>

\* ------------------------------------------------------------------- seek
\* The file a seekable sink holds: what it held before the Writer was made
\* (baseOffset bytes, zero here) and the bytes delivered since.
SinkFile == [k \in 1..w.baseOffset |-> 0] \o w.sinkBytes

\* C4: for every record k of a closed Writer, SeekRecord with the offset
\* LastRecordOffset returned right after record k was started, on a seekable
\* Reader over the sink's file and with no error pending, returns nil, and
\* the Next calls that follow return record k and the records after it, in
\* order, then io.EOF.
SeekReplay ==
    (ret.op = "Close" /\ ret.err = Nil /\ ~w.sinkFailed)
        => \A k \in 1..Len(offs) :
               LET sk == SeekRecord(NewReader(SinkFile, TRUE), offs[k])
                   got == readRecords(sk.r, <<>>, FALSE)
               IN /\ sk.err = Nil
                  /\ got.recs = SubSeq(recs, k, Len(recs))
                  /\ got.end = EOF

\* ------------------------------------------------------------ block format
\* C5: while no sink call has failed, the bytes delivered to the sink number
\* blockNumber * blockSize + written; so every block before the current one
\* was delivered whole.
BlockAlignment ==
    ~w.sinkFailed => Len(w.sinkBytes) = w.blockNumber * blockSize + w.written

\* A block prefix pushed by a flush, after at least one whole block.
BlockAlignmentWitness ==
    /\ ~w.sinkFailed /\ w.blockNumber >= 1
    /\ w.written > 0 /\ w.written < blockSize
    /\ Len(w.sinkBytes) = w.blockNumber * blockSize + w.written

\* C6: the chunks delivered to the sink, in stream order, are for each record
\* one FULL chunk or one FIRST, any number of MIDDLE and one LAST chunk, with
\* no chunk of another record in between and nothing else in the stream but
\* zero padding; once everything given to the Writer is sealed and pushed,
\* the records so encoded are exactly the records written.
ChunkSequence ==
    ~w.sinkFailed
        => \A wk \in {Chunks(w.sinkBytes)} :
           \A rs \in {group(w.sinkBytes, wk.chunks, 1, FALSE, <<>>, {},
                           [recs |-> <<>>, blks |-> <<>>])} :
              /\ wk.ok
              /\ rs.ok
              /\ Delivered => /\ ~rs.open
                              /\ rs.recs = recs

\* A delivered stream with a FULL record and a FIRST MIDDLE LAST record.
ChunkSequenceWitness ==
    /\ Delivered /\ Len(recs) >= 2
    /\ LET cs == Chunks(w.sinkBytes).chunks
       IN \E a, b \in 1..Len(cs) :
              /\ cs[a].typ = fullChunkType
              /\ b + 2 <= Len(cs)
              /\ cs[b].typ = firstChunkType
              /\ cs[b + 1].typ = middleChunkType
              /\ cs[b + 2].typ = lastChunkType

\* The sum of the length fields of chunks cs.
RECURSIVE sumLen(_, _)
sumLen(cs, k) == IF k > Len(cs) THEN 0 ELSE cs[k].len + sumLen(cs, k + 1)

\* The sum of the lengths of records rs.
RECURSIVE sumRecs(_, _)
sumRecs(rs, k) == IF k > Len(rs) THEN 0 ELSE Len(rs[k]) + sumRecs(rs, k + 1)

\* C7: every chunk delivered to the sink lies within one block: a header at
\* in-block offset o with length field L has o + 7 + L <= blockSize; and the
\* length fields count the payload: each chunk carries the checksum of its
\* type byte and exactly L payload bytes, and once everything is sealed and
\* pushed the length fields add up to the bytes written.
HeaderValidity ==
    ~w.sinkFailed
        => \A wk \in {Chunks(w.sinkBytes)} :
              /\ wk.ok
              /\ \A k \in 1..Len(wk.chunks) :
                     (wk.chunks[k].off % blockSize) + headerSize + wk.chunks[k].len
                         <= blockSize
              /\ Delivered => sumLen(wk.chunks, 1) = sumRecs(recs, 1)

\* A chunk that ends exactly at the end of its block, and one of length 0
\* whose header takes the last seven bytes of a block.
HeaderValidityWitness ==
    /\ ~w.sinkFailed
    /\ LET cs == Chunks(w.sinkBytes).chunks
       IN \E a, b \in 1..Len(cs) :
              /\ cs[a].len > 0
              /\ (cs[a].off % blockSize) + headerSize + cs[a].len = blockSize
              /\ cs[b].len = 0
              /\ (cs[b].off % blockSize) + headerSize = blockSize

\* C8: when a Write starts a record and fewer than headerSize bytes are left
\* in the current block, the rest of that block reaches the sink as zeros and
\* the record's first chunk header is at offset 0 of the next block.
ZeroPadding ==
    [][ ( /\ ret'.op = "Write" /\ ret'.err = Nil
          /\ w.err = Nil /\ ~w.pending
          /\ w.j + headerSize > blockSize )
        => /\ Len(w'.sinkBytes) >= (w.blockNumber + 1) * blockSize
           /\ \A k \in w.j..(blockSize - 1) :
                  w'.sinkBytes[w.blockNumber * blockSize + k + 1] = 0
           /\ offs' = Append(offs, w.baseOffset + (w.blockNumber + 1) * blockSize)
      ]_vars

\* A record just started at the head of a block, after a block whose tail
\* was padded where the block before it (the same buffer) held payload.
ZeroPaddingWitness ==
    /\ ~w.sinkFailed /\ ret.op = "Write" /\ ret.err = Nil
    /\ w.blockNumber >= 2 /\ Len(offs) >= 1
    /\ offs[Len(offs)] = w.baseOffset + w.blockNumber * blockSize
    /\ LET b == w.blockNumber - 1
           cs == Chunks(w.sinkBytes).chunks
       IN \E k \in 1..Len(cs) :
              LET e == (cs[k].off % blockSize) + headerSize + cs[k].len
              IN /\ cs[k].off \div blockSize = b
                 /\ e < blockSize /\ blockSize - e < headerSize
                 /\ \E q \in e..(blockSize - 1) :
                        /\ w.sinkBytes[(b - 1) * blockSize + q + 1] # 0
                        /\ w.sinkBytes[b * blockSize + q + 1] = 0

\* ------------------------------------------------------------------ errors
\* C9: an error returned by a sink call is stored and returned by the call
\* that met it, and from then on every call returns that error, makes no
\* call on the sink, and leaves the stored error as it is.
StickyWriterError ==
    [][ /\ w'.sinkFailed => (w'.err \in SinkErrors /\ ret'.err = w'.err)
        /\ w.sinkFailed => /\ ret'.err = w.err
                           /\ w'.err = w.err
                           /\ w'.calls = <<>>
                           /\ w'.sinkBytes = w.sinkBytes
      ]_vars

\* A Close, making no sink call, that returned the error a Sync of the sink
\* left behind.
StickyWriterErrorWitness ==
    /\ w.sinkFailed /\ w.err = ErrSinkSync
    /\ ret.op = "Close" /\ ret.err = ErrSinkSync /\ w.calls = <<>>

\* C10: a Close on a Writer without a stored error whose sink does not fail
\* returns nil, leaves the pending record sealed and every buffered byte
\* delivered, and stores the closed-Writer error; from then on every call
\* returns that error and nothing more reaches the sink.
CloseSeals ==
    [][ /\ (ret'.op = "Close" /\ w.err = Nil /\ ~w'.sinkFailed)
               => /\ ret'.err = Nil
                  /\ w'.err = ErrClosed
                  /\ ~w'.pending /\ w'.written = w'.j
                  /\ Len(w'.sinkBytes) = w.blockNumber * blockSize + w.j
                  /\ ~Records(w'.sinkBytes).open
                  /\ Records(w'.sinkBytes).recs = recs
        /\ w.err = ErrClosed => /\ ret'.err = ErrClosed
                                /\ w'.err = ErrClosed
                                /\ w'.calls = <<>>
                                /\ w'.sinkBytes = w.sinkBytes
      ]_vars

\* A Flush refused by a Writer that Close had sealed with a record of two
\* chunks delivered.
CloseSealsWitness ==
    /\ w.err = ErrClosed /\ ~w.sinkFailed
    /\ ret.op = "Flush" /\ ret.err = ErrClosed /\ w.calls = <<>>
    /\ w.blockNumber >= 1 /\ Len(recs) >= 1
    /\ Records(w.sinkBytes).recs = recs

\* ----------------------------------------------------------- Reader calls
\* C11: a Read on a singleReader that is not the live one (a Next, a Recover
\* on a stored error or a SeekRecord came after the Next that returned it)
\* returns the stale-reader error, delivers no byte and leaves the Reader as
\* it was; so at most one singleReader delivers bytes at any time.
StaleHandles ==
    [][ (rret'.op = "Read" /\ rret'.x # live.seq)
            => /\ rret'.err = ErrStale
               /\ rret'.data = <<>>
               /\ rd' = Entered
      ]_vars

\* A Read refused on a singleReader that nothing but a Recover on a stored
\* error has made stale: the Reader's sequence number is one past its own.
StaleHandlesWitness ==
    /\ rret.op = "Read" /\ rret.err = ErrStale /\ rret.x # 0
    /\ live = NoHandle /\ rd.recovering /\ rd.err = Nil
    /\ rd.seq = rret.x + 1

\* C12: on an undamaged log, a Next made while a singleReader is live,
\* whatever part of its record that one has delivered, returns the record
\* written right after it: the new singleReader starts at that record's
\* LastRecordOffset and reading it to the end gives exactly that record's
\* payload; behind the last record Next returns io.EOF.
PartialConsumption ==
    [][ (rret'.op = "Next" /\ rd.src = w.sinkBytes /\ live.seq # 0)
            => /\ \E k \in 1..Len(offs) : offs[k] = live.off
               /\ LET k == CHOOSE k \in 1..Len(offs) : offs[k] = live.off
                  IN IF k < Len(offs)
                     THEN /\ rret'.err = Nil
                          /\ live'.off = offs[k + 1]
                          /\ readAll(rd', live'.seq, <<>>)
                                 = [r |-> readAll(rd', live'.seq, <<>>).r,
                                    data |-> recs[k + 1], err |-> Nil]
                     ELSE rret'.err = EOF
      ]_vars

\* A Next that returned the second record when the first, which goes on in
\* the next block, had delivered some of its bytes but not all.
PartialConsumptionWitness ==
    /\ rret.op = "Next" /\ rret.err = Nil /\ rd.src = w.sinkBytes
    /\ Len(offs) >= 2 /\ live.off = offs[2]
    /\ rret.got > 0 /\ rret.got < blockSize - headerSize
    /\ Len(recs[1]) > blockSize - headerSize

\* A Read on the live singleReader that finds the record's last chunk used
\* up: singleReader.Read returns io.EOF for the end of the record.
AtRecordEnd == rd.err = Nil /\ rd.last /\ rd.i = rd.j

\* A Read step returning the io.EOF that ends its record: the last chunk of
\* the record, which this Read may have fetched and found empty, is used up.
EndsRecord == rret'.err = EOF /\ rd'.last /\ rd'.i = rd'.j

\* C13 as claimed: after a Next or a Read that returned an error, io.EOF
\* included, the next Next, SeekRecord or Read on the live singleReader
\* returns that same error and makes no call on the underlying io.Reader.
StickyReaderErrorAsClaimed ==
    [][ ( /\ rret.op \in {"Next", "Read"} /\ rret.err # Nil
          /\ \/ rret'.op \in {"Next", "SeekRecord"}
             \/ rret'.op = "Read" /\ rret'.x = live.seq )
        => (rret'.err = rret.err /\ rd'.io = 0)
      ]_vars

\* C13: an error returned by Next, or by a Read on the live singleReader
\* other than the io.EOF that ends its record, is stored; while an error is
\* stored every Next, SeekRecord and Read on the live singleReader returns
\* it, no call is made on the underlying io.Reader, and only Recover changes
\* the stored error.  The io.EOF that ends a record is not stored.
StickyReaderError ==
    [][ /\ (rret'.op = "Next" /\ rret'.err # Nil) => rd'.err = rret'.err
        /\ (rret'.op = "Read" /\ rret'.x = live.seq /\ rret'.err # Nil /\ ~EndsRecord)
               => rd'.err = rret'.err
        /\ (rret'.op = "Read" /\ rret'.x = live.seq /\ AtRecordEnd)
               => (EndsRecord /\ rd'.err = Nil)
        /\ (rret'.op = "Read" /\ rret'.x = live.seq /\ rd.err = Nil /\ EndsRecord)
               => rd'.err = Nil
        /\ (rd.err # Nil /\ rret'.op # "Recover")
               => /\ rd'.err = rd.err
                  /\ rd'.io = 0
                  /\ ( \/ rret'.op \in {"Next", "SeekRecord"}
                       \/ rret'.op = "Read" /\ rret'.x = live.seq )
                         => rret'.err = rd.err
      ]_vars

\* A Read on the live singleReader that returned the checksum error an
\* earlier Read of it had met, without touching the underlying io.Reader.
StickyReaderErrorWitness ==
    /\ rret.op = "Read" /\ rret.x = live.seq /\ live.seq # 0
    /\ rret.err = ErrChecksum /\ rd.err = ErrChecksum /\ rd.io = 0

\* C14: a Recover made while no error is stored changes nothing of the
\* Reader (cursors, flags, sequence number, buffer, position of the
\* io.Reader); the live singleReader reads on as it would have and the next
\* Next returns what it would have returned.
RecoverNoOp ==
    [][ (rret'.op = "Recover" /\ rd.err = Nil)
            => /\ rd' = Entered
               /\ live' = live
               /\ ReaderNext(rd') = ReaderNext(Entered)
               /\ Read(rd', live.seq, ReadLen) = Read(Entered, live.seq, ReadLen)
      ]_vars

\* A Recover that did not act, made when the live singleReader had delivered
\* a part of its record, the rest of it still to come.
RecoverNoOpWitness ==
    /\ rret.op = "Recover" /\ rd.err = Nil /\ ~rd.recovering
    /\ live.seq # 0 /\ live.seq = rd.seq /\ live.got > 0
    /\ Len(Read(rd, live.seq, ReadLen).data) > 0

\* ------------------------------------------------------------ zeroed blocks
\* The records among rs (with blocks bs) that lie in one block.
RECURSIVE whole(_, _, _)
whole(rs, bs, k) ==
    IF k > Len(rs) THEN <<>>
    ELSE IF Cardinality(bs[k]) = 1 THEN <<rs[k]>> \o whole(rs, bs, k + 1)
    ELSE whole(rs, bs, k + 1)

\* C15: for the stream of a closed Writer that is two blocks long, with a
\* block of zeros put between the two, the read loop that calls Recover
\* after every error yields every record that lies in one of the two blocks,
\* yields only records that were written, in the order written, and ends
\* with io.EOF.
ZeroBlockTolerance ==
    (ret.op = "Close" /\ ret.err = Nil /\ ~w.sinkFailed /\ w.blockNumber = 1)
        => LET g == Records(w.sinkBytes)
               s2 == Damaged(w.sinkBytes, [Undamaged EXCEPT !.zero = TRUE])
               got == readRecords(NewReader(s2, FALSE), <<>>, TRUE)
           IN /\ Len(s2) = Len(w.sinkBytes) + blockSize
              /\ IsSubseq(whole(g.recs, g.blks, 1), got.recs)
              /\ IsSubseq(got.recs, recs)
              /\ got.end = EOF

\* Three records, the first in the first block, the third in the second and
\* the second in both: with the block of zeros between the blocks the first
\* and the third are read.
ZeroBlockToleranceWitness ==
    /\ ret.op = "Close" /\ ret.err = Nil /\ ~w.sinkFailed /\ w.blockNumber = 1
    /\ LET g == Records(w.sinkBytes)
           s2 == Damaged(w.sinkBytes, [Undamaged EXCEPT !.zero = TRUE])
       IN /\ g.recs = recs /\ Len(recs) = 3
          /\ g.blks[1] = {0} /\ g.blks[2] = {0, 1} /\ g.blks[3] = {1}
          /\ \A k \in (blockSize + 1)..(2 * blockSize) : s2[k] = 0
          /\ readRecords(NewReader(s2, FALSE), <<>>, TRUE).recs = <<recs[1], recs[3]>>

\* -------------------------------------------------------- LastRecordOffset
\* The offset in the delivered bytes of the first chunk header of the last
\* record among the chunks cs[1..k] (-1: no record).
RECURSIVE lastStart(_, _)
lastStart(cs, k) ==
    IF k = 0 THEN 0 - 1
    ELSE IF cs[k].typ \in {fullChunkType, firstChunkType} THEN cs[k].off
    ELSE lastStart(cs, k - 1)

SmallLogClosed ==
    /\ ret.op = "Close" /\ ret.err = Nil /\ ~w.sinkFailed
    /\ Len(recs) >= 1 /\ w.blockNumber = 0
    /\ Len(Chunks(w.sinkBytes).chunks) = Len(recs)

\* C17 as claimed: short records and Close leave exactly one full block in
\* the sink.
CloseLeavesFullBlock == SmallLogClosed => Len(w.sinkBytes) = blockSize

\* C17: short records and Close leave in the sink one chunk a record and
\* nothing else: headerSize bytes and the payload for each record (7 + 5,
\* 7 + 0 and 7 + 5 bytes for "hello", "" and "world"); Close does not fill
\* up the block.
CloseLeavesChunks ==
    SmallLogClosed
        => /\ Len(w.sinkBytes) = Len(recs) * headerSize + sumRecs(recs, 1)
           /\ Len(w.sinkBytes) = w.j
           /\ Len(w.sinkBytes) <= blockSize

\* Two records, the second empty, closed into less than a block.
CloseLeavesChunksWitness ==
    /\ SmallLogClosed
    /\ Len(recs) = 2 /\ recs[2] = <<>>
    /\ Len(w.sinkBytes) = 2 * headerSize + Len(recs[1])
    /\ Len(w.sinkBytes) < blockSize

\* ------------------------------------------------- sstable/block: Handle
\* A uint64 is kept as its base-128 digits, lowest first, without high zero
\* digits: what binary.Uvarint assembles with x |= uint64(b&0x7f) << s.
MaxVarintLen64 == 10

RECURSIVE Norm(_)
Norm(x) ==
    IF x = <<>> THEN x
    ELSE IF x[Len(x)] = 0 THEN Norm(SubSeq(x, 1, Len(x) - 1))
    ELSE x

\* binary.Uvarint: the value and the number of bytes read; n = 0 when the
\* buffer ends inside the varint, n = -(i + 1) when it overflows 64 bits at
\* byte i.
RECURSIVE uvarintFrom(_, _, _)
uvarintFrom(buf, i, acc) ==
    IF i >= Len(buf) THEN [x |-> <<>>, n |-> 0]
    ELSE IF i = MaxVarintLen64 THEN [x |-> <<>>, n |-> 0 - (i + 1)]
    ELSE LET b == buf[i + 1]
         IN IF b < 128
            THEN IF i = MaxVarintLen64 - 1 /\ b > 1
                 THEN [x |-> <<>>, n |-> 0 - (i + 1)]
                 ELSE [x |-> Norm(Append(acc, b)), n |-> i + 1]
            ELSE uvarintFrom(buf, i + 1, Append(acc, b % 128))

Uvarint(buf) == uvarintFrom(buf, 0, <<>>)

\* Handle{}: Offset 0, Length 0.
ZeroHandle == [Offset |-> <<>>, Length |-> <<>>]

\* DecodeHandle: the Handle and the byte count returned, or the run-time
\* panic of the slice expression src[n:] when n is negative.
DecodeHandle(src) ==
    LET o == Uvarint(src)
    IN IF o.n < 0 \/ o.n > Len(src)
       THEN [h |-> ZeroHandle, n |-> 0, panicked |-> TRUE]
       ELSE LET l == Uvarint(SubSeq(src, o.n + 1, Len(src)))
            IN IF o.n = 0 \/ l.n = 0
               THEN [h |-> ZeroHandle, n |-> 0, panicked |-> FALSE]
               ELSE [h |-> [Offset |-> o.x, Length |-> l.x], n |-> o.n + l.n,
                     panicked |-> FALSE]

\* DecodeHandleWithProperties: the Handle, the properties src[n:], whether
\* the invalid-handle error is returned, and whether the call panicked (in
\* DecodeHandle, or at its own src[n:]).
DecodeHandleWithProperties(src) ==
    LET d == DecodeHandle(src)
    IN IF d.panicked
       THEN [h |-> ZeroHandle, props |-> <<>>, invalid |-> FALSE, panicked |-> TRUE]
       ELSE IF d.n = 0
       THEN [h |-> ZeroHandle, props |-> <<>>, invalid |-> TRUE, panicked |-> FALSE]
       ELSE IF d.n < 0 \/ d.n > Len(src)
       THEN [h |-> ZeroHandle, props |-> <<>>, invalid |-> FALSE, panicked |-> TRUE]
       ELSE [h |-> d.h, props |-> SubSeq(src, d.n + 1, Len(src)), invalid |-> FALSE,
             panicked |-> FALSE]

\* The buffers decoded: two pieces one after the other, each a run of
\* continuation bytes (none, one, or about as many as a uint64 takes) and
\* then a final byte or nothing.
ContCounts == {0, 1, MaxVarintLen64 - 2, MaxVarintLen64 - 1, MaxVarintLen64,
               MaxVarintLen64 + 1}
ContBytes == {128, 255}
FinalBytes == {0, 1, 2, 127}
Pieces ==
    { [k \in 1..c |-> b] \o f :
          c \in ContCounts, b \in ContBytes, f \in {<<>>} \cup {<<t>> : t \in FinalBytes} }
DecodeInputs == { a \o b : a \in Pieces, b \in Pieces }

InitDecode ==
    /\ w = NewWriter([f |-> FALSE, s |-> FALSE, pos |-> 0])
    /\ ret = [op |-> "NewWriter", err |-> Nil, n |-> 0]
    /\ recs = <<>>
    /\ offs = <<>>
    /\ nwrites = 0
    /\ midFlush = 0 - 1
    /\ NoReader
    /\ dec \in { [src |-> src, done |-> FALSE] : src \in DecodeInputs }

DoDecodeHandle ==
    /\ ~dec.done
    /\ dec' = [src |-> dec.src, done |-> TRUE, op |-> "DecodeHandle",
               out |-> DecodeHandle(dec.src)]
    /\ UNCHANGED <<writerVars, readerVars>>

DoDecodeHandleWithProperties ==
    /\ ~dec.done
    /\ dec' = [src |-> dec.src, done |-> TRUE, op |-> "DecodeHandleWithProperties",
               out |-> DecodeHandleWithProperties(dec.src)]
    /\ UNCHANGED <<writerVars, readerVars>>

NextDecode ==
    \/ DoDecodeHandle
    \/ DoDecodeHandleWithProperties

SpecDecode == InitDecode /\ [][NextDecode]_vars

\* The end of the varint at the head of buf by the encoding's definition:
\* the index of its first byte below 128 (0: there is none).
RECURSIVE varintEnd(_, _)
varintEnd(buf, k) ==
    IF k > Len(buf) THEN 0
    ELSE IF buf[k] < 128 THEN k
    ELSE varintEnd(buf, k + 1)

\* Whether buf begins with the varint of a uint64: it ends within
\* MaxVarintLen64 bytes, and a tenth byte adds one bit at most.
ValidVarint(buf) ==
    LET e == varintEnd(buf, 1)
    IN /\ e > 0 /\ e <= MaxVarintLen64
       /\ (e = MaxVarintLen64 => buf[e] <= 1)

\* Whether src begins with an encoded Handle: two such varints.
ValidHandle(src) ==
    /\ ValidVarint(src)
    /\ ValidVarint(SubSeq(src, varintEnd(src, 1) + 1, Len(src)))

\* C18: DecodeHandle returns the zero Handle and the count 0 for every
\* buffer that does not begin with an encoded Handle (empty, cut short, or
\* with an offset or a length that overflows 64 bits), never panics, and
\* never returns a negative count or a non-zero count with a Handle it did
\* not decode; DecodeHandleWithProperties then returns its error.
DecodeRejectsInvalid ==
    dec.done
        => /\ ~dec.out.panicked
           /\ dec.op = "DecodeHandle"
                  => /\ dec.out.n >= 0
                     /\ ~ValidHandle(dec.src)
                            => (dec.out.h = ZeroHandle /\ dec.out.n = 0)
           /\ dec.op = "DecodeHandleWithProperties"
                  => (~ValidHandle(dec.src) => dec.out.invalid)

\* ------------------------------------------------- recovering in a block
\* Whether, walking the chunks of the block in buf from p by their length
\* fields, one whose checksum does not verify comes before stop.
RECURSIVE badBefore(_, _, _)
badBefore(buf, p, stop) ==
    IF p >= stop THEN FALSE
    ELSE LET length == Uint16(Slice(buf, p + 4, p + 6))
         IN \/ Uint32(Slice(buf, p, p + 4))
                   # crcValue(Slice(buf, p + 6, p + headerSize + length))
            \/ badBefore(buf, p + headerSize + length, stop)

\* C19: a Next made while the Reader is recovering (Recover has been called
\* and no chunk returned since) never returns a chunk of a block in which a
\* chunk before it has a checksum that does not verify: the rest of such a
\* block is dropped.
RecoveringDropsBlock ==
    [][ (rret'.op = "Next" /\ rret'.err = Nil /\ rd.recovering /\ rd.err = Nil)
            => ~badBefore(rd'.buf, 0, rd'.i - headerSize)
      ]_vars

\* ------------------------------------------------ a zeroed block in Next
\* Whether the block of src that begins at offset pos is all zeros.
ZeroBlockAt(src, pos) ==
    /\ Len(src) >= pos + blockSize
    /\ \A k \in (pos + 1)..(pos + blockSize) : src[k] = 0

\* A Next step, made with no error stored, that reads a zeroed block in its
\* search for the start of a record.
NextMeetsZeroBlock ==
    /\ rret'.op = "Next" /\ rd.err = Nil
    /\ ZeroBlockAt(rd.src, rd.pos)
    /\ rd'.pos > rd.pos

RECURSIVE chunkEnd(_, _, _)
chunkEnd(src, pos, end) ==
    IF pos + headerSize > end THEN pos
    ELSE LET length == Uint16(SubSeq(src, pos + 5, pos + 6))
         IN IF pos + headerSize + length > end THEN pos
            ELSE chunkEnd(src, pos + headerSize + length, end)

\* The offset in the stream of the Reader's cursor j.
Cursor(r) == r.pos - r.n + r.j

\* The bytes left in the final block of src behind its last whole chunk, for
\* a Reader whose cursor is at offset c: none when the cursor is at the end.
Stray(src, c) ==
    LET n == Len(src)
        b == ((n - 1) \div blockSize) * blockSize
    IN IF c >= n THEN 0 ELSE n - chunkEnd(src, IF c > b THEN c ELSE b, n)

\* A Next step, made with no error stored, that reports the end of a stream
\* whose final block is short.
NextEndsShortStream ==
    /\ rret'.op = "Next" /\ rd.err = Nil
    /\ rret'.err \in {EOF, ErrUnexpectedEOF}
    /\ Len(rd.src) % blockSize # 0

NextHeaderZero(r) ==
    IF r.j + headerSize <= r.n
    THEN \A k \in r.j..(r.j + headerSize - 1) : r.buf[k] = 0
    ELSE /\ r.n = blockSize
         /\ Len(r.src) >= r.pos + headerSize
         /\ \A k \in (r.pos + 1)..(r.pos + headerSize) : r.src[k] = 0

\* A Read step on the current singleReader, made with no error stored, that
\* has used up its chunk, which is not the last of its record, and meets a
\* zeroed header.
ReadMeetsZeroHeader ==
    /\ rret'.op = "Read" /\ rret'.x = rd.seq /\ rd.err = Nil
    /\ rd.i = rd.j /\ ~rd.last
    /\ NextHeaderZero(rd)

\* C22: a Read that needs the next chunk of its record and meets a zeroed
\* header returns the invalid-chunk error and no byte, without reading past
\* the block of that header; the error is stored; while it is stored no
\* Read returns a byte; and Recover clears it, making the singleReader
\* stale.
MidRecordZeroHeader ==
    [][ /\ ReadMeetsZeroHeader
            => /\ rret'.err = ErrInvalidChunk /\ rd'.err = ErrInvalidChunk
               /\ rret'.data = <<>>
               /\ rd'.pos <= rd.pos + blockSize
               /\ rd'.seq = rd.seq /\ ~rd'.recovering
        /\ (rret'.op = "Read" /\ rd.err = ErrInvalidChunk)
            => (rret'.data = <<>> /\ rret'.err # Nil /\ rd' = Entered)
        /\ (rret'.op = "Recover" /\ rd.err = ErrInvalidChunk)
            => (rd'.err = Nil /\ rd'.seq = rd.seq + 1 /\ rd'.recovering)
      ]_vars

\* A Read on the current singleReader that has returned the invalid-chunk
\* error for the first header of the zeroed block that follows the block of
\* its record's first chunk.
MidRecordZeroHeaderWitness ==
    /\ rret.op = "Read" /\ rret.x = rd.seq /\ rret.x = live.seq
    /\ rret.err = ErrInvalidChunk /\ rd.err = ErrInvalidChunk
    /\ rd.pos = 2 * blockSize /\ ZeroBlockAt(rd.src, blockSize)
    /\ live.off < blockSize /\ live.off >= 0

\* ------------------------------------------ chunk types inside a record
\* The chunk the Reader meets next, read from the stream: at its cursor or,
\* with no room for a header left in a full block, at the start of the next
\* block.  valid is whether it lies inside its block and its checksum
\* verifies.
NextChunkAt(r) ==
    LET a == IF r.j + headerSize <= r.n THEN Cursor(r) ELSE r.pos
        end == Min(Len(r.src), (a \div blockSize + 1) * blockSize)
        hdr == a + headerSize <= end
        length == IF hdr THEN Uint16(SubSeq(r.src, a + 5, a + 6)) ELSE 0
        fits == hdr /\ a + headerSize + length <= end
    IN [ typ |-> IF hdr THEN r.src[a + 7] ELSE 0,
         payload |-> IF fits THEN SubSeq(r.src, a + headerSize + 1, a + headerSize + length)
                     ELSE <<>>,
         valid |-> /\ fits
                   /\ r.j + headerSize <= r.n \/ r.n = blockSize
                   /\ Uint32(SubSeq(r.src, a + 1, a + 4))
                          = crcValue(SubSeq(r.src, a + 7, a + headerSize + length)) ]

\* A Read step on the current singleReader, made with no error stored, that
\* has used up its chunk, which is not the last of its record, and meets a
\* valid FULL or FIRST chunk with a payload.
ReadMeetsRecordStart ==
    /\ rret'.op = "Read" /\ rret'.x = rd.seq /\ rd.err = Nil
    /\ rd.i = rd.j /\ ~rd.last
    /\ NextChunkAt(rd).valid
    /\ NextChunkAt(rd).typ \in {fullChunkType, firstChunkType}
    /\ NextChunkAt(rd).payload # <<>>

\* C23: a Read that needs the next chunk of its record and meets a valid
\* FULL or FIRST chunk (with a payload) returns the first bytes of that
\* chunk's payload and no error, and stores none; after a FULL chunk the
\* record is at its last chunk, after a FIRST chunk it is not; and a Read
\* made with the last chunk used up returns io.EOF.
ContinuationUnchecked ==
    [][ /\ ReadMeetsRecordStart
            => LET c == NextChunkAt(rd)
               IN /\ rret'.err = Nil /\ rd'.err = Nil
                  /\ rret'.data = SubSeq(c.payload, 1, Min(ReadLen, Len(c.payload)))
                  /\ rd'.last = (c.typ = fullChunkType)
                  /\ rd'.seq = rd.seq
        /\ (rret'.op = "Read" /\ rret'.x = rd.seq /\ rd.err = Nil
                /\ rd.i = rd.j /\ rd.last)
            => (rret'.err = EOF /\ rret'.data = <<>> /\ rd' = Entered)
      ]_vars

\* A Read on the current singleReader, whose record began in an earlier
\* block with a FIRST chunk, that has returned the payload of the FULL
\* chunk at the start of the block in the buffer.
ContinuationUncheckedWitness ==
    /\ rret.op = "Read" /\ rret.x = rd.seq /\ rret.x = live.seq
    /\ rret.err = Nil /\ rret.data # <<>> /\ rd.err = Nil
    /\ live.off >= 0 /\ live.off < rd.pos - rd.n
    /\ rd.src[live.off + 7] = firstChunkType
    /\ rd.buf[6] = fullChunkType /\ rd.last
    /\ rd.j = headerSize + Uint16(Slice(rd.buf, 4, 6))
    /\ rret.data = Slice(rd.buf, headerSize, rd.i)

\* ------------------------------------------------- the state fillHeader needs
\* C24: fillHeader never panics: whatever Write, Finish, Flush, Sync and
\* Close calls were made and whichever sink calls failed, no call of
\* fillHeader has found i + headerSize > j or j > blockSize, and while a
\* chunk is pending, which is when Finish, Flush, Sync and Close call it,
\* 0 <= i, i + headerSize <= j and j <= blockSize.
FillHeaderGuard ==
    /\ ~w.panicked
    /\ w.pending => (0 <= w.i /\ w.i + headerSize <= w.j /\ w.j <= blockSize)

\* A Finish has sealed, as an empty LAST chunk at the start of the buffer,
\* the record whose Write failed in writeBlock at a block boundary: the
\* chunk fillHeader was given is a bare header, i = 0 and j = headerSize.
FillHeaderGuardWitness ==
    /\ ret.op = "Finish" /\ w.err = ErrSinkWrite /\ w.sinkFailed
    /\ ~w.pending /\ ~w.first /\ ~w.panicked
    /\ w.i = 0 /\ w.j = headerSize
    /\ w.buf[6] = lastChunkType
    /\ Uint16(Slice(w.buf, 4, 6)) = 0
    /\ Uint32(Slice(w.buf, 0, 4)) = crcValue(<<lastChunkType>>)

\* ------------------------------------------------------ the Reader's cursors
\* Whether buf[a:b] lies in the payload of a chunk of the block in r.buf
\* that ends at r.j, inside the n valid bytes, and whose checksum verifies.
InCheckedChunk(r, a, b) ==
    \E p \in 0..(blockSize - headerSize) :
        LET length == Uint16(Slice(r.buf, p + 4, p + 6))
        IN /\ p + headerSize + length = r.j /\ r.j <= r.n
           /\ p + headerSize <= a /\ a <= b /\ b <= r.j
           /\ Uint32(Slice(r.buf, p, p + 4))
                  = crcValue(Slice(r.buf, p + 6, p + headerSize + length))

\* Whether the walk over the chunks of src from pos, by their length fields,
\* comes to a chunk header at off.
RECURSIVE startsChunk(_, _, _)
startsChunk(src, pos, off) ==
    IF pos = off THEN TRUE
    ELSE IF pos > off \/ pos + headerSize > Len(src) THEN FALSE
    ELSE startsChunk(src, pos + headerSize + Uint16(SubSeq(src, pos + 5, pos + 6)), off)

\* Whether off is the offset in src of the header of a record's first chunk.
RecordStart(src, off) ==
    /\ off + headerSize <= Len(src)
    /\ src[off + 7] \in {fullChunkType, firstChunkType}
    /\ startsChunk(src, off - (off % blockSize), off)

\* A SeekRecord step given an offset at which no record starts in the
\* stream read (the damage moved or removed the record).
SeeksElsewhere == rret'.op = "SeekRecord" /\ ~RecordStart(rd.src, rret'.off)

\* The cursors of Reader r are in order and inside the valid bytes.
CursorsInOrder(r) == 0 <= r.i /\ r.i <= r.j /\ r.j <= r.n /\ r.n <= blockSize

\* C25: a new Reader has its cursors in order, 0 <= i <= j <= n <=
\* blockSize, and every Next, Read, Recover and SeekRecord to the offset of
\* a record's start that finds them in order and stores no error leaves
\* them in order, so they are in order after any sequence of such calls
\* while no error is stored; after a Next that returned a record the Reader
\* is not recovering and the unread payload buf[i:j] is that of a chunk
\* that passed the length and checksum checks; and the bytes a Read
\* returned are bytes of such a chunk, the ones just before i, inside the
\* n valid bytes of the block.
ReaderCursors ==
    /\ CursorsInOrder(rd)
    /\ [][ /\ rd'.n <= blockSize
           /\ (rd'.err = Nil /\ ~SeeksElsewhere /\ (rd.err = Nil => CursorsInOrder(rd)))
                  => CursorsInOrder(rd')
           /\ (rret'.op = "Next" /\ rret'.err = Nil)
                  => /\ ~rd'.recovering /\ rd'.err = Nil
                     /\ InCheckedChunk(rd', rd'.i, rd'.j)
           /\ (rret'.op = "Read" /\ rret'.data # <<>>)
                  => /\ rret'.err = Nil /\ rd'.err = Nil /\ ~rd'.recovering
                     /\ Len(rret'.data) <= ReadLen
                     /\ rret'.data = Slice(rd'.buf, rd'.i - Len(rret'.data), rd'.i)
                     /\ InCheckedChunk(rd', rd'.i - Len(rret'.data), rd'.i)
         ]_vars

\* A Read, on a singleReader got after other calls had raised the sequence
\* number, has returned the bytes up to the end of a chunk that ends where
\* the valid bytes of a short final block end: i = j = n < blockSize.
ReaderCursorsWitness ==
    /\ rret.op = "Read" /\ rret.data # <<>> /\ rret.x > 2
    /\ rd.err = Nil /\ rd.i = rd.j /\ rd.j = rd.n /\ rd.n < blockSize
    /\ rd.pos = Len(rd.src)

====
